---------------------------- MODULE Spec2Model ----------------------------
(***************************************************************************)
(* A model of the blog application: the slug generator (utils/rands.py),   *)
(* the save pipeline of Tag, Category, Page and Post (blog/models.py) and  *)
(* the public read routes (blog/views.py, blog/urls.py).                   *)
(*                                                                         *)
(* Text is a sequence of one-character strings, so that the conversions    *)
(* (slugify, sanitize_search_query) are computed character by character.   *)
(***************************************************************************)
EXTENDS Integers, Sequences, FiniteSets, TLC

VARIABLES
    users,       \* auth.User table: the set of user ids that exist
    tags,        \* blog_tag table: sequence of rows, a row's pk is its index
    categories,  \* blog_category table
    pages,       \* blog_page table
    posts,       \* blog_post table
    media,       \* media storage: stored file |-> the image it holds
    setups,      \* site_setup_sitesetup table
    attachments, \* blog_postattachment table
    calls,       \* requests in flight: each one's steps done so far
    resp         \* the last operation run and what it returned

vars == <<users, tags, categories, pages, posts, media, setups, attachments,
          calls, resp>>

\* the tables and requests no save method of the blog models touches
rest == <<setups, attachments, calls>>

store == <<users, tags, categories, pages, posts, media, rest>>

---------------------------------------------------------------------------
(* Bounds of the model.                                                    *)

\* longest input text handed to slugify_new
MaxLen == 3
\* largest suffix length handed to slugify_new
MaxK == 2

---------------------------------------------------------------------------
(* Characters and text.                                                    *)

AsciiLower == {"a", "b", "c", "e", "g", "p", "t"}
AsciiUpper == {"A"}
Digits == {"1", "7"}
Whitespace == {" ", "\t"}
\* "!" stands for ASCII punctuation, "é" for an accented letter that NFKD
\* decomposes into "e" plus a combining mark, "ø" for a non-ASCII letter
\* with no decomposition.
Chars == {"a", "A", "1", "_", "-", " ", "!", "é", "ø"}

\* the alphabet random_letters draws from: a letter and a digit of
\* string.ascii_lowercase + string.digits
RandChars == {"b", "7"}

Texts(n) == UNION {[1..m -> Chars] : m \in 0..n}

\* str.lower()
Lower(c) == IF c = "A" THEN "a" ELSE c

LowerText(s) == [i \in 1..Len(s) |-> Lower(s[i])]

\* the regular expression class \w of a str pattern: letters of any script,
\* digits and the underscore
IsWord(c) == c \in AsciiLower \cup AsciiUpper \cup Digits \cup {"_", "é", "ø"}

\* the regular expression class \s
IsSpace(c) == c \in Whitespace

RECURSIVE Concat(_)
Concat(ss) == IF ss = <<>> THEN <<>> ELSE Head(ss) \o Concat(Tail(ss))

\* unicodedata.normalize('NFKD', value).encode('ascii', 'ignore'): an ASCII
\* character is kept, an accented letter keeps its base letter, any other
\* non-ASCII character is dropped.
AsciiFold(c) ==
    IF c = "é" THEN <<"e">> ELSE IF c = "ø" THEN <<>> ELSE <<c>>

\* re.sub(r'[^\w\s-]', '', value): drop what is neither word, space nor "-"
KeepSlugChar(c) == IsWord(c) \/ IsSpace(c) \/ c = "-"

\* re.sub(r'[-\s]+', '-', value): every run of hyphens and spaces becomes
\* one hyphen
RECURSIVE CollapseHyphens(_)
CollapseHyphens(s) ==
    IF s = <<>> THEN <<>>
    ELSE IF Head(s) = "-" \/ IsSpace(Head(s))
         THEN IF Len(s) > 1 /\ (s[2] = "-" \/ IsSpace(s[2]))
              THEN CollapseHyphens(Tail(s))
              ELSE <<"-">> \o CollapseHyphens(Tail(s))
         ELSE <<Head(s)>> \o CollapseHyphens(Tail(s))

\* str.strip('-_')
RECURSIVE LStrip(_, _)
LStrip(s, cs) ==
    IF s # <<>> /\ Head(s) \in cs THEN LStrip(Tail(s), cs) ELSE s

RECURSIVE RStrip(_, _)
RStrip(s, cs) ==
    IF s # <<>> /\ s[Len(s)] \in cs
    THEN RStrip(SubSeq(s, 1, Len(s) - 1), cs)
    ELSE s

Strip(s, cs) == RStrip(LStrip(s, cs), cs)

\* django.utils.text.slugify(value), allow_unicode = False
slugify(text) ==
    LET ascii == Concat([i \in 1..Len(text) |-> AsciiFold(text[i])])
        kept  == SelectSeq(LowerText(ascii), KeepSlugChar)
    IN  Strip(CollapseHyphens(kept), {"-", "_"})

\* random_letters(k): the outcomes of SystemRandom().choices(alphabet, k=k)
random_letters(k) == [1..k -> RandChars]

\* the text is joined to the suffix as it stands, never slugified
slugify_new_Raw(text, r) == text \o <<"-">> \o r

\* the hyphen between the slugified text and the suffix is left out
slugify_new_NoHyphen(text, r) == slugify(text) \o r

\* slugify_new(text, k) with r the string random_letters(k) returned
slugify_new(text, r) == slugify(text) \o <<"-">> \o r

---------------------------------------------------------------------------
(* Operations and what they return.                                        *)

NoResp == [op |-> "none"]

\* the caller takes the returned value; the next operation starts from idle
Return ==
    /\ resp # NoResp
    /\ resp' = NoResp
    /\ UNCHANGED store

EmptyStore ==
    /\ users = {}
    /\ tags = <<>>
    /\ categories = <<>>
    /\ pages = <<>>
    /\ posts = <<>>
    /\ media = <<>>
    /\ setups = <<>>
    /\ attachments = <<>>
    /\ calls = <<>>

---------------------------------------------------------------------------
(* Entities and their save methods (blog/models.py).                       *)
(* A blank slug, None or '', is the empty text; a null foreign key is 0;   *)
(* a save of pk 0 inserts a row, a save of an existing pk updates it.      *)

\* the suffix length every save method passes to slugify_new
SLUG_K == 4

\* the width Post.save resizes a cover to
COVER_WIDTH == 900

\* a FieldFile: dir is '' until the storage has saved the file under the
\* field's upload_to directory, n tells apart stored files of one name
NoFile == [dir |-> "", name |-> "", n |-> 0]

\* no file is uploaded with the save
NoImage == [w |-> 0, h |-> 0, ok |-> FALSE]

\* the width SiteSetup.save resizes a favicon to
FAVICON_WIDTH == 32

\* the width PostAttachment.save resizes a file to
ATTACHMENT_WIDTH == 900

DefaultSetup == [title |-> <<>>, favicon |-> NoFile]

DefaultAttachment == [name |-> "", file |-> NoFile]

DefaultPost ==
    [title |-> <<>>, slug |-> <<>>, excerpt |-> <<>>, is_published |-> FALSE,
     content |-> <<>>, cover |-> NoFile, created_by |-> 0, updated_by |-> 0,
     category |-> 0, tags |-> {}]

DefaultPage ==
    [title |-> <<>>, slug |-> <<>>, is_published |-> FALSE, content |-> <<>>]

\* the slug is left as it is, blank or not
ResolveSlug_Never(slug, text, r) == slug

\* the slug is generated on every save
ResolveSlug_Always(slug, text, r) == slugify_new(text, r)

\* if not self.slug: self.slug = slugify_new(self.name, 4)
ResolveSlug(slug, text, r) ==
    IF slug = <<>> THEN slugify_new(text, r) ELSE slug

\* the row's own slug counts against it
UniqueViolation_AnyPk(table, pk, slug) ==
    \E i \in 1..Len(table) : table[i].slug = slug

\* the unique constraint of the slug column: another row holds the slug
UniqueViolation(table, pk, slug) ==
    \E i \in 1..Len(table) : i # pk /\ table[i].slug = slug

\* an UPDATE changes nothing
WriteRow_InsertOnly(table, pk, row) ==
    IF pk = 0 THEN Append(table, row) ELSE table

\* models.Model.save: INSERT without a pk, UPDATE with one
WriteRow(table, pk, row) ==
    IF pk = 0 THEN Append(table, row) ELSE [table EXCEPT ![pk] = row]

SavedPk(table, pk) == IF pk = 0 THEN Len(table) + 1 ELSE pk

SaveResp(kind, table, pk, slug_in, slug_out, status) ==
    [op |-> "save", kind |-> kind, status |-> status,
     pk |-> IF status = "ok" THEN SavedPk(table, pk) ELSE pk,
     created |-> (pk = 0 /\ status = "ok"),
     slug_in |-> slug_in, slug_out |-> slug_out,
     resized |-> FALSE, file_in |-> NoFile, file_out |-> NoFile,
     before |-> NoImage]

\* Tag.save of an instance with the given pk, name and slug
SaveTag(pk, name, slug, r) ==
    LET s == ResolveSlug(slug, name, r)
        row == [name |-> name, slug |-> s]
    IN  /\ IF UniqueViolation(tags, pk, s)
           THEN /\ tags' = tags
                /\ resp' = SaveResp("Tag", tags, pk, slug, s, "IntegrityError")
           ELSE /\ tags' = WriteRow(tags, pk, row)
                /\ resp' = SaveResp("Tag", tags, pk, slug, s, "ok")
        /\ UNCHANGED <<users, categories, pages, posts, media, rest>>

\* Category.save
SaveCategory(pk, name, slug, r) ==
    LET s == ResolveSlug(slug, name, r)
        row == [name |-> name, slug |-> s]
    IN  /\ IF UniqueViolation(categories, pk, s)
           THEN /\ categories' = categories
                /\ resp' = SaveResp("Category", categories, pk, slug, s,
                                    "IntegrityError")
           ELSE /\ categories' = WriteRow(categories, pk, row)
                /\ resp' = SaveResp("Category", categories, pk, slug, s, "ok")
        /\ UNCHANGED <<users, tags, pages, posts, media, rest>>

\* Page.save of the instance inst
SavePage(pk, inst, r) ==
    LET s == ResolveSlug(inst.slug, inst.title, r)
        row == [inst EXCEPT !.slug = s]
    IN  /\ IF UniqueViolation(pages, pk, s)
           THEN /\ pages' = pages
                /\ resp' = SaveResp("Page", pages, pk, inst.slug, s,
                                    "IntegrityError")
           ELSE /\ pages' = WriteRow(pages, pk, row)
                /\ resp' = SaveResp("Page", pages, pk, inst.slug, s, "ok")
        /\ UNCHANGED <<users, tags, categories, posts, media, rest>>

\* every file opens as an image
ImageFails_Never(m, file) == FALSE

\* a tie is rounded up
PyRound_HalfUp(num, den) == (2 * num + den) \div (2 * den)

\* round(num / den) as Python rounds: to the nearest integer, a tie to the
\* even one
PyRound(num, den) ==
    LET q == num \div den
        rem == num % den
    IN  IF 2 * rem < den THEN q
        ELSE IF 2 * rem > den THEN q + 1
        ELSE IF q % 2 = 0 THEN q ELSE q + 1

\* Image.open fails: no file at the path, or not an image
ImageFails(m, file) == file \notin DOMAIN m \/ ~m[file].ok

\* resize_image(image_django, new_width): the storage after the call
resize_image(m, file, new_width) ==
    IF m[file].w <= new_width THEN m
    ELSE [m EXCEPT ![file] =
            [w |-> new_width,
             h |-> PyRound(new_width * m[file].h, m[file].w),
             ok |-> TRUE]]

\* the image is resized whatever name the file had before the write
NameChanged_AnyFile(current_name, name) == name # NoFile

\* if self.cover: cover_changed = current_cover_name != self.cover.name
NameChanged(current_name, name) == name # NoFile /\ current_name # name

\* FieldFile._committed: the storage holds the file
Committed(file) == file.dir # ""

\* FileField.pre_save: an uploaded file is written under upload_to, under a
\* name no stored file has, and the field takes the stored name
StoredName(m, file, dir) ==
    IF file = NoFile \/ Committed(file) THEN file
    ELSE [dir |-> dir, name |-> file.name,
          n |-> Cardinality({f \in DOMAIN m :
                                f.dir = dir /\ f.name = file.name})]

\* Post.save of the instance inst; img is the image of the file uploaded to
\* inst.cover, read only when inst.cover is an upload not yet stored
SavePost(pk, inst, img, r) ==
    LET s == ResolveSlug(inst.slug, inst.title, r)
        current_cover_name == inst.cover
        cover == StoredName(media, inst.cover, "posts")
        stored == IF cover = inst.cover THEN media ELSE media @@ (cover :> img)
        row == [inst EXCEPT !.slug = s, !.cover = cover]
        cover_changed == NameChanged(current_cover_name, cover)
        r0 == [SaveResp("Post", posts, pk, inst.slug, s, "ok")
                 EXCEPT !.file_in = current_cover_name, !.file_out = cover,
                        !.before = IF cover \in DOMAIN stored
                                   THEN stored[cover] ELSE NoImage]
    IN  /\ IF UniqueViolation(posts, pk, s)
           THEN /\ posts' = posts
                /\ media' = stored
                /\ resp' = [SaveResp("Post", posts, pk, inst.slug, s,
                                     "IntegrityError")
                               EXCEPT !.file_in = current_cover_name,
                                      !.file_out = cover]
           ELSE /\ posts' = WriteRow(posts, pk, row)
                /\ IF ~cover_changed
                   THEN media' = stored /\ resp' = r0
                   ELSE IF ImageFails(stored, cover)
                   THEN /\ media' = stored
                        /\ resp' = [r0 EXCEPT !.status = "ProcessingError",
                                              !.resized = TRUE]
                   ELSE /\ media' = resize_image(stored, cover, COVER_WIDTH)
                        /\ resp' = [r0 EXCEPT !.resized = TRUE]
        /\ UNCHANGED <<users, tags, categories, pages, rest>>

\* what the save methods with an image field share: the upload is stored
\* by the field's pre_save, the row is written, and the image is resized
\* when the field is set and its name is no longer the one read before the
\* write; the storage, the row's file and the response of the save
ImageSave(kind, table, pk, file, img, dir, width) ==
    LET current_name == file
        name == StoredName(media, file, dir)
        stored == IF name = file THEN media ELSE media @@ (name :> img)
        changed == NameChanged(current_name, name)
        r0 == [SaveResp(kind, table, pk, <<>>, <<>>, "ok")
                 EXCEPT !.file_in = current_name, !.file_out = name,
                        !.before = IF name \in DOMAIN stored
                                   THEN stored[name] ELSE NoImage]
    IN  IF ~changed
        THEN [file |-> name, media |-> stored, resp |-> r0]
        ELSE IF ImageFails(stored, name)
        THEN [file |-> name, media |-> stored,
              resp |-> [r0 EXCEPT !.status = "ProcessingError",
                                  !.resized = TRUE]]
        ELSE [file |-> name, media |-> resize_image(stored, name, width),
              resp |-> [r0 EXCEPT !.resized = TRUE]]

\* SiteSetup.save of the instance inst; img is the image of the file
\* uploaded to inst.favicon
SaveSetup(pk, inst, img) ==
    LET out == ImageSave("SiteSetup", setups, pk, inst.favicon, img,
                         "assets/favicon", FAVICON_WIDTH)
    IN  /\ setups' = WriteRow(setups, pk, [inst EXCEPT !.favicon = out.file])
        /\ media' = out.media
        /\ resp' = out.resp
        /\ UNCHANGED <<users, tags, categories, pages, posts, attachments>>

\* PostAttachment.save of the instance inst: a blank name is taken from the
\* file
SaveAttachment(pk, inst, img) ==
    LET named == IF inst.name = "" THEN [inst EXCEPT !.name = inst.file.name]
                 ELSE inst
        out == ImageSave("PostAttachment", attachments, pk, inst.file, img,
                         "django-summernote", ATTACHMENT_WIDTH)
    IN  /\ attachments' =
              WriteRow(attachments, pk, [named EXCEPT !.file = out.file])
        /\ media' = out.media
        /\ resp' = out.resp
        /\ UNCHANGED <<users, tags, categories, pages, posts, setups, calls>>

---------------------------------------------------------------------------
(* The public read routes (blog/views.py, blog/urls.py). A queryset is the *)
(* sequence of the pks of its rows, in its order.                          *)

PER_PAGE == 9

Max(S) == CHOOSE m \in S : \A x \in S : x <= m

\* order_by('-pk')
RECURSIVE OrderByPkDesc(_)
OrderByPkDesc(S) ==
    IF S = {} THEN <<>> ELSE <<Max(S)>> \o OrderByPkDesc(S \ {Max(S)})

Range(q) == {q[i] : i \in 1..Len(q)}

\* every post, published or not
get_published_All == OrderByPkDesc(1..Len(posts))

\* PostManager.get_published: filter(is_published=True).order_by('-pk')
get_published ==
    OrderByPkDesc({pk \in 1..Len(posts) : posts[pk].is_published})

\* PostListView.get_queryset: the class's queryset, ordered by ordering
PostListQueryset == OrderByPkDesc(Range(get_published))

\* the posts of every author
CreateByQueryset_AnyAuthor(user_pk) == PostListQueryset

\* CreateByListView.get_queryset: filter(created_by__pk=user.pk)
CreateByQueryset(user_pk) ==
    SelectSeq(PostListQueryset, LAMBDA pk : posts[pk].created_by = user_pk)

\* CategoryListView.get_queryset: filter(category__slug=slug)
CategoryQueryset(slug) ==
    SelectSeq(PostListQueryset,
              LAMBDA pk : /\ posts[pk].category # 0
                          /\ categories[posts[pk].category].slug = slug)

\* TagListView.get_queryset: filter(tags__slug=slug)
TagQueryset(slug) ==
    SelectSeq(PostListQueryset,
              LAMBDA pk : \E t \in posts[pk].tags : tags[t].slug = slug)

\* str.split() then ' '.join: the words of s, one space between them
RECURSIVE CollapseSpaces(_)
CollapseSpaces(s) ==
    IF s = <<>> THEN <<>>
    ELSE IF IsSpace(Head(s))
         THEN IF Len(s) > 1 /\ IsSpace(s[2])
              THEN CollapseSpaces(Tail(s))
              ELSE <<" ">> \o CollapseSpaces(Tail(s))
         ELSE <<Head(s)>> \o CollapseSpaces(Tail(s))

\* the query keeps its letter case
sanitize_search_query_NoLower(query) ==
    LET spaced == [i \in 1..Len(query) |->
                     IF IsWord(query[i]) \/ IsSpace(query[i])
                     THEN query[i] ELSE " "]
    IN  Strip(CollapseSpaces(spaced), Whitespace)

\* sanitize_search_query: re.sub(r'[^\w\s]', ' ', query), then lower(),
\* split() and join on one space
sanitize_search_query(query) ==
    LET spaced == [i \in 1..Len(query) |->
                     IF IsWord(query[i]) \/ IsSpace(query[i])
                     THEN query[i] ELSE " "]
    IN  Strip(CollapseSpaces(LowerText(spaced)), Whitespace)

\* field__icontains=value: value is a substring of the field, letter case
\* ignored
IContains(field, value) ==
    \E i \in 0..(Len(field) - Len(value)) :
        SubSeq(LowerText(field), i + 1, i + Len(value)) = LowerText(value)

\* the q parameter taken as it was typed
SearchValue_Raw(q) == q

\* SearchListView.setup: the q parameter stripped, then sanitized
SearchValue(q) == sanitize_search_query(Strip(q, Whitespace))

\* every published post is a result
SearchQueryset_NoFilter(search_value) ==
    SubSeq(PostListQueryset, 1,
           IF Len(PostListQueryset) < PER_PAGE THEN Len(PostListQueryset)
           ELSE PER_PAGE)

\* SearchListView.get_queryset: title, excerpt or content contains the
\* search value; the queryset is cut to its first PER_PAGE rows
SearchQueryset(search_value) ==
    LET found == SelectSeq(PostListQueryset,
                     LAMBDA pk : \/ IContains(posts[pk].title, search_value)
                                 \/ IContains(posts[pk].excerpt, search_value)
                                 \/ IContains(posts[pk].content, search_value))
    IN  SubSeq(found, 1, IF Len(found) < PER_PAGE THEN Len(found) ELSE PER_PAGE)

\* Paginator.num_pages
NumPages(count, allow_empty) ==
    IF count = 0 /\ ~allow_empty THEN 0
    ELSE IF count = 0 THEN 1
    ELSE (count + PER_PAGE - 1) \div PER_PAGE

\* every page number from 1 on is served
ValidPage_Any(number, count, allow_empty) == number >= 1

\* Paginator.validate_number
ValidPage(number, count, allow_empty) ==
    /\ number >= 1
    /\ number <= NumPages(count, allow_empty) \/ (number = 1 /\ allow_empty)

\* every page starts at the first row
PageSlice_FromStart(q, number) ==
    SubSeq(q, 1, IF number * PER_PAGE < Len(q) THEN number * PER_PAGE ELSE Len(q))

\* Paginator.page(number).object_list
PageSlice(q, number) ==
    SubSeq(q, (number - 1) * PER_PAGE + 1,
           IF number * PER_PAGE < Len(q) THEN number * PER_PAGE ELSE Len(q))

NotFound(req) == [req EXCEPT !.status = 404]

\* ListView.get of a view with paginate_by = PER_PAGE: an empty queryset is
\* not found unless allow_empty, a page out of range is not found, else the
\* page of the queryset is rendered as 'posts'
ListViewGet(req, q, allow_empty) ==
    LET asked == [req EXCEPT !.queried = TRUE]
    IN  IF ~allow_empty /\ q = <<>> THEN NotFound(asked)
        ELSE IF ~ValidPage(req.page, Len(q), allow_empty) THEN NotFound(asked)
        ELSE [asked EXCEPT !.status = 200, !.posts = PageSlice(q, req.page)]

\* a GET request as it reaches a view, nothing answered yet and no queryset
\* evaluated
Request(route, page) ==
    [op |-> "get", route |-> route, page |-> page, status |-> 0,
     posts |-> <<>>, obj |-> 0, author_pk |-> 0, slug |-> <<>>, q |-> <<>>,
     page_title |-> <<>>, queried |-> FALSE, location |-> "none"]

\* an empty listing is refused
ListAllowEmpty_False == FALSE

\* PostListView sets no allow_empty and inherits True from ListView; so does
\* SearchListView, which extends PostListView
ListAllowEmpty == TRUE

\* PostListView: path ''
IndexView(page) ==
    ListViewGet(Request("index", page), PostListQueryset, ListAllowEmpty)

\* the author's listing is refused when it is empty
CreateByAllowEmpty_False == FALSE

\* CreateByListView inherits allow_empty = True from ListView
CreateByAllowEmpty == TRUE

\* CreateByListView.get: path 'created_by/<int:author_pk>/'
CreateByView(author_pk, page) ==
    LET req == [Request("created_by", page) EXCEPT !.author_pk = author_pk]
    IN  IF author_pk \notin users THEN NotFound(req)
        ELSE ListViewGet(req, CreateByQueryset(author_pk), CreateByAllowEmpty)

\* an empty category or tag listing is rendered
FilterAllowEmpty_True == TRUE

\* CategoryListView.allow_empty, TagListView.allow_empty
FilterAllowEmpty == FALSE

\* CategoryListView: path 'category/<slug:slug>/'; get_context_data reads
\* object_list[0], an IndexError (a server error) were the list empty
CategoryView(slug, page) ==
    LET req == [Request("category", page) EXCEPT !.slug = slug]
        q == CategoryQueryset(slug)
        got == ListViewGet(req, q, FilterAllowEmpty)
    IN  IF got.status # 200 THEN got
        ELSE IF q = <<>> THEN [got EXCEPT !.status = 500, !.posts = <<>>]
        ELSE [got EXCEPT !.page_title =
                 categories[posts[q[1]].category].name]

\* the page title is the bare name
TagPageTitle_NameOnly(name) == name

\* f'{tag_object.name} - Tag - '
TagPageTitle(name) ==
    name \o <<" ", "-", " ", "T", "a", "g", " ", "-", " ">>

\* TagListView: path 'tag/<slug:slug>/'; get_context_data looks the tag up
\* among the tags of the first post listed
TagView(slug, page) ==
    LET req == [Request("tag", page) EXCEPT !.slug = slug]
        q == TagQueryset(slug)
        got == ListViewGet(req, q, FilterAllowEmpty)
        found == IF q = <<>> THEN {}
                 ELSE {t \in posts[q[1]].tags : tags[t].slug = slug}
    IN  IF got.status # 200 THEN got
        ELSE IF q = <<>> \/ found = {} THEN [NotFound(got) EXCEPT !.posts = <<>>]
        ELSE [got EXCEPT !.page_title =
                 TagPageTitle(tags[CHOOSE t \in found : TRUE].name)]

\* SearchListView: path 'search/'; a blank search value redirects to index
SearchView(q, page) ==
    LET req == [Request("search", page) EXCEPT !.q = q]
        search_value == SearchValue(q)
    IN  IF search_value = <<>>
        THEN [req EXCEPT !.status = 302, !.location = "index"]
        ELSE [ListViewGet(req, SearchQueryset(search_value), ListAllowEmpty)
                 EXCEPT !.page_title = search_value]

\* validate_slug: letters, digits, underscores and hyphens only
ValidSlug(value) ==
    \A i \in 1..Len(value) :
        value[i] \in AsciiLower \cup AsciiUpper \cup Digits \cup {"-", "_"}

\* reverse('blog:index') and reverse('blog:<name>', args=(slug,)): the path of
\* the route; a slug the <slug:slug> converter does not match, the blank one
\* too, has no path
IndexUrl == <<"/">>

reverse(name, slug) ==
    IF slug = <<>> \/ ~ValidSlug(slug) THEN <<"NoReverseMatch">>
    ELSE <<"/">> \o name \o <<"/">> \o slug \o <<"/">>

\* the detail path, published or not
get_absolute_url_AlwaysDetail(name, row) == reverse(name, row.slug)

\* Post.get_absolute_url (name 'post'), Page.get_absolute_url (name 'page')
get_absolute_url(name, row) ==
    IF ~row.is_published THEN IndexUrl ELSE reverse(name, row.slug)

\* every post, published or not
PostDetailQueryset_All == 1..Len(posts)

\* PostDetailView.get_queryset: filter(is_published=True)
PostDetailQueryset == {pk \in 1..Len(posts) : posts[pk].is_published}

\* every page, published or not
PageDetailQueryset_All == 1..Len(pages)

\* PageDetailView.get_queryset: filter(is_published=True)
PageDetailQueryset == {pk \in 1..Len(pages) : pages[pk].is_published}

\* DetailView.get with slug_field = 'slug': the row of the queryset with the
\* slug, not found when there is none
DetailViewGet(req, table, q) ==
    LET found == {pk \in q : table[pk].slug = req.slug}
    IN  IF found = {} THEN NotFound([req EXCEPT !.queried = TRUE])
        ELSE LET pk == CHOOSE x \in found : TRUE
             IN  [req EXCEPT !.status = 200, !.obj = pk, !.queried = TRUE,
                             !.page_title = table[pk].title]

\* PostDetailView: path 'post/<slug:slug>/'
PostDetailView(slug) ==
    DetailViewGet([Request("post", 1) EXCEPT !.slug = slug], posts,
                  PostDetailQueryset)

\* PageDetailView: path 'page/<slug:slug>/'
PageDetailView(slug) ==
    DetailViewGet([Request("page", 1) EXCEPT !.slug = slug], pages,
                  PageDetailQueryset)

---------------------------------------------------------------------------
(* The slug generator on its own: one call of slugify_new per step.        *)

InitSlug == EmptyStore /\ resp = NoResp

CallSlugifyNew ==
    /\ resp = NoResp
    /\ \E text \in Texts(MaxLen), k \in 0..MaxK :
         \E r \in random_letters(k) :
            resp' = [op |-> "slugify_new", text |-> text, k |-> k,
                     out |-> slugify_new(text, r)]
    /\ UNCHANGED store

NextSlug == CallSlugifyNew \/ Return

SpecSlug == InitSlug /\ [][NextSlug]_vars

---------------------------------------------------------------------------
(* The search sanitizer on its own: one call per step.                     *)

\* the q parameters tried: texts over Chars and the tab
QueryTexts(n) == UNION {[1..m -> Chars \cup {"\t"}] : m \in 0..n}

InitSanitize == EmptyStore /\ resp = NoResp

CallSanitize ==
    /\ resp = NoResp
    /\ \E query \in QueryTexts(MaxLen) :
         resp' = [op |-> "sanitize", query |-> query,
                  out |-> sanitize_search_query(query)]
    /\ UNCHANGED store

NextSanitize == CallSanitize \/ Return

SpecSanitize == InitSanitize /\ [][NextSanitize]_vars

---------------------------------------------------------------------------

\* the last k characters of s
Suffix(s, k) == SubSeq(s, Len(s) - k + 1, Len(s))

\* s ends in a hyphen followed by exactly k characters of the random alphabet
EndsInRandomSuffix(s, k) ==
    /\ Len(s) >= k + 1
    /\ s[Len(s) - k] = "-"
    /\ \A i \in 1..k : Suffix(s, k)[i] \in RandChars

\* a character that leaves a letter or a digit in the slug
Sluggable(c) == c \in AsciiLower \cup AsciiUpper \cup Digits \cup {"é"}

\* C6 as stated: slugify_new(t, k) holds only lowercase letters, digits and
\* hyphens, and ends in a hyphen followed by exactly k random characters.
C6_OnlyLowerDigitHyphen ==
    resp.op = "slugify_new" =>
        /\ \A i \in 1..Len(resp.out) :
              resp.out[i] \in AsciiLower \cup Digits \cup {"-"}
        /\ EndsInRandomSuffix(resp.out, resp.k)

\* C6 amended: slugify_new(t, k) holds only lowercase letters, digits,
\* hyphens and underscores, and ends in a hyphen followed by exactly k
\* random lowercase-alphanumeric characters.
C6_SlugAlphabetAndSuffix ==
    resp.op = "slugify_new" =>
        /\ \A i \in 1..Len(resp.out) :
              resp.out[i] \in AsciiLower \cup Digits \cup {"-", "_"}
        /\ EndsInRandomSuffix(resp.out, resp.k)
        /\ \A i \in 1..resp.k :
              Suffix(resp.out, resp.k)[i] \in AsciiLower \cup Digits

\* C6 witness: a text with an upper-case letter, an inner underscore and
\* punctuation has been slugified with a suffix of the largest length.
C6_Witness ==
    /\ resp.op = "slugify_new"
    /\ resp.text = <<"A", "_", "1">>
    /\ resp.k = MaxK
    /\ SubSeq(resp.out, 1, 4) = <<"a", "_", "1", "-">>

\* C7 as stated: for a text with no sluggable character the returned slug
\* is the k-character random suffix and nothing else.
C7_OnlySuffix ==
    (resp.op = "slugify_new"
        /\ \A i \in 1..Len(resp.text) : ~Sluggable(resp.text[i]))
    => /\ Len(resp.out) = resp.k
       /\ \A i \in 1..Len(resp.out) : resp.out[i] \in RandChars

\* C7 amended: slugify_new returns a slug for every input text, and for an
\* empty text or a text with no sluggable character that slug is one hyphen
\* followed by the k-character random suffix.
C7_HyphenThenSuffix ==
    resp.op = "slugify_new" =>
        /\ Len(resp.out) >= resp.k + 1
        /\ (\A i \in 1..Len(resp.text) : ~Sluggable(resp.text[i]))
             => /\ Len(resp.out) = resp.k + 1
                /\ resp.out[1] = "-"
                /\ \A i \in 1..resp.k : resp.out[i + 1] \in RandChars

\* C7 witness: the empty text has been slugified with a non-empty suffix.
C7_Witness ==
    /\ resp.op = "slugify_new"
    /\ resp.text = <<>>
    /\ resp.k = MaxK
    /\ Len(resp.out) = MaxK + 1

---------------------------------------------------------------------------
(* The save pipeline: Tag, Category, Page and Post instances are saved,    *)
(* new or loaded from the store and edited, with their slug blank, kept or *)
(* typed in.                                                               *)

\* rows over all four tables
MaxRows == 3

\* names and titles typed in
SaveNames == {<<"A">>, <<"b">>}

\* the outcomes of random_letters(SLUG_K) that are enumerated: the strings
\* of one repeated character
SaveDraws == {r \in random_letters(SLUG_K) : \A i \in 1..SLUG_K : r[i] = r[1]}

\* a slug typed in: the one slugify_new makes of the name A with the suffix
\* bbbb
TypedSlugs == {<<"a", "-", "b", "b", "b", "b">>}

RowCount == Len(tags) + Len(categories) + Len(pages) + Len(posts)

\* the pks an instance may carry: 0 for a new one while there is room
Pks(table) == 1..Len(table) \cup (IF RowCount < MaxRows THEN {0} ELSE {})

\* the slugs an instance may carry: blank, typed in, or as loaded
SlugsFor(table, pk) ==
    {<<>>} \cup TypedSlugs \cup (IF pk = 0 THEN {} ELSE {table[pk].slug})

\* a new instance, or the stored one
LoadPage(pk) == IF pk = 0 THEN DefaultPage ELSE pages[pk]

LoadPost(pk) == IF pk = 0 THEN DefaultPost ELSE posts[pk]

InitSave == EmptyStore /\ resp = NoResp

TagSave ==
    /\ resp = NoResp
    /\ \E pk \in Pks(tags), name \in SaveNames, r \in SaveDraws :
         \E slug \in SlugsFor(tags, pk) : SaveTag(pk, name, slug, r)

CategorySave ==
    /\ resp = NoResp
    /\ \E pk \in Pks(categories), name \in SaveNames, r \in SaveDraws :
         \E slug \in SlugsFor(categories, pk) : SaveCategory(pk, name, slug, r)

PageSave ==
    /\ resp = NoResp
    /\ \E pk \in Pks(pages), title \in SaveNames, r \in SaveDraws :
         \E slug \in SlugsFor(pages, pk) :
            SavePage(pk, [LoadPage(pk) EXCEPT !.title = title, !.slug = slug], r)

PostSave ==
    /\ resp = NoResp
    /\ \E pk \in Pks(posts), title \in SaveNames, r \in SaveDraws :
         \E slug \in SlugsFor(posts, pk) :
            SavePost(pk, [LoadPost(pk) EXCEPT !.title = title, !.slug = slug],
                     NoImage, r)

NextSave == TagSave \/ CategorySave \/ PageSave \/ PostSave \/ Return

SpecSave == InitSave /\ [][NextSave]_vars

Tables == <<tags, categories, pages, posts>>

\* the table of a kind of entity
TableOf(kind) ==
    CASE kind = "Tag" -> tags
      [] kind = "Category" -> categories
      [] kind = "Page" -> pages
      [] kind = "Post" -> posts

\* C3: the persisted records of one type have pairwise distinct slugs, and
\* every record persisted through save has a non-empty slug.
C3_SlugsDistinctAndNonEmpty ==
    \A t \in 1..Len(Tables) :
        /\ \A i \in 1..Len(Tables[t]) : Tables[t][i].slug # <<>>
        /\ \A i, j \in 1..Len(Tables[t]) :
              i # j => Tables[t][i].slug # Tables[t][j].slug

\* C3 witness: two tags of one name were both saved with a blank slug, the
\* second just now, and a category holds the slug of one of them.
C3_Witness ==
    /\ resp.op = "save" /\ resp.kind = "Tag" /\ resp.status = "ok"
    /\ resp.created /\ resp.slug_in = <<>>
    /\ Len(tags) = 2 /\ tags[1].name = tags[2].name
    /\ Len(categories) = 1 /\ categories[1].slug = tags[1].slug

\* C4 as stated: a save with a blank slug is never rejected by the slug's
\* unique constraint.
C4_BlankSlugSaveNeverRejected ==
    (resp.op = "save" /\ resp.slug_in = <<>>) => resp.status = "ok"

\* C5: a save of an instance whose slug is not blank leaves the slug as it
\* was, on the instance and, once written, in the store, whatever the name
\* or title has become.
C5_NonBlankSlugUnchanged ==
    (resp.op = "save" /\ resp.slug_in # <<>>) =>
        /\ resp.slug_out = resp.slug_in
        /\ resp.status = "ok" =>
              TableOf(resp.kind)[resp.pk].slug = resp.slug_in

\* C5 witness: a stored post whose slug was generated from the title A has
\* been saved again under the title b, and keeps the slug.
C5_Witness ==
    /\ resp.op = "save" /\ resp.kind = "Post" /\ resp.status = "ok"
    /\ ~resp.created /\ resp.slug_in # <<>>
    /\ posts[resp.pk].title = <<"b">>
    /\ posts[resp.pk].slug = <<"a", "-", "7", "7", "7", "7">>

---------------------------------------------------------------------------
(* The site in use: posts are written and edited, the page is published    *)
(* and withdrawn, and visitors request the public routes.                  *)

\* posts written on top of the ones the site starts with
MaxPosts == 2

\* the slug typed in for the post with the given pk
PostSlug(pk) == <<"p">> \o [j \in 1..pk |-> "1"]

\* a batch of n published posts of user 1, in category 1, with tag 1
PostBatch(n) ==
    [i \in 1..n |->
        [DefaultPost EXCEPT !.title = <<"A", "b">>, !.slug = PostSlug(i),
                            !.is_published = TRUE, !.created_by = 1,
                            !.category = 1, !.tags = {1}]]

\* the posts the site started with: none, or a batch that fills a page
Seeded == IF Len(posts) >= PER_PAGE THEN PER_PAGE ELSE 0

Init ==
    /\ users = {1, 2}
    /\ tags = <<[name |-> <<"T", "a">>, slug |-> <<"t", "a">>],
                [name |-> <<"T", "b">>, slug |-> <<"t", "b">>]>>
    /\ categories = <<[name |-> <<"C", "a">>, slug |-> <<"c", "a">>],
                      [name |-> <<"C", "b">>, slug |-> <<"c", "b">>]>>
    /\ pages = <<[DefaultPage EXCEPT !.title = <<"G">>, !.slug = <<"g">>]>>
    /\ posts \in {PostBatch(0), PostBatch(PER_PAGE)}
    /\ media = <<>>
    /\ setups = <<>> /\ attachments = <<>> /\ calls = <<>>
    /\ resp = NoResp

\* the parameters visitors send
AuthorPks == {1, 2, 3}
CategorySlugs == {<<"c", "a">>, <<"c", "b">>, <<"z">>}
TagSlugs == {<<"t", "a">>, <<"t", "b">>, <<"z">>}
PageSlugs == {<<"g">>, <<"z">>}
Queries == {<<>>, <<" ">>, <<"a", "!">>, <<"e">>}
PageNumbers == {1, 2}
PostSlugs == {PostSlug(i) : i \in {Len(posts), Len(posts) + 1} \ {0}}

\* a post is created (Post.objects.create, then tags.set) or a post written
\* here is edited and saved; its slug is typed in, so no suffix is drawn
PostWrite ==
    /\ resp = NoResp
    /\ \E pk \in (Seeded + 1)..Len(posts)
                 \cup (IF Len(posts) - Seeded < MaxPosts THEN {0} ELSE {}),
          pub \in BOOLEAN, author \in {1, 2}, cat \in {0, 1},
          tg \in {{}, {1}} :
         SavePost(pk,
                  [LoadPost(pk) EXCEPT
                       !.title = <<"A", "b">>,
                       !.slug = PostSlug(SavedPk(posts, pk)),
                       !.is_published = pub, !.created_by = author,
                       !.category = cat, !.tags = tg],
                  NoImage, CHOOSE r \in SaveDraws : TRUE)

\* the page is published or withdrawn
PageWrite ==
    /\ resp = NoResp
    /\ \E pk \in 1..Len(pages), pub \in BOOLEAN :
         SavePage(pk, [pages[pk] EXCEPT !.is_published = pub],
                  CHOOSE r \in SaveDraws : TRUE)

GetIndex ==
    /\ resp = NoResp
    /\ \E page \in PageNumbers : resp' = IndexView(page)
    /\ UNCHANGED store

GetCreatedBy ==
    /\ resp = NoResp
    /\ \E a \in AuthorPks, page \in PageNumbers : resp' = CreateByView(a, page)
    /\ UNCHANGED store

GetCategory ==
    /\ resp = NoResp
    /\ \E slug \in CategorySlugs, page \in PageNumbers :
         resp' = CategoryView(slug, page)
    /\ UNCHANGED store

GetTag ==
    /\ resp = NoResp
    /\ \E slug \in TagSlugs, page \in PageNumbers : resp' = TagView(slug, page)
    /\ UNCHANGED store

GetSearch ==
    /\ resp = NoResp
    /\ \E q \in Queries, page \in PageNumbers : resp' = SearchView(q, page)
    /\ UNCHANGED store

GetPost ==
    /\ resp = NoResp
    /\ \E slug \in PostSlugs : resp' = PostDetailView(slug)
    /\ UNCHANGED store

GetPage ==
    /\ resp = NoResp
    /\ \E slug \in PageSlugs : resp' = PageDetailView(slug)
    /\ UNCHANGED store

\* a template or the admin asks a stored post for its URL
PostGetAbsoluteUrl ==
    /\ resp = NoResp
    /\ \E pk \in 1..Len(posts) :
         resp' = [op |-> "get_absolute_url", kind |-> "Post", pk |-> pk,
                  url |-> get_absolute_url(<<"p", "o", "s", "t">>, posts[pk])]
    /\ UNCHANGED store

\* and a stored page
PageGetAbsoluteUrl ==
    /\ resp = NoResp
    /\ \E pk \in 1..Len(pages) :
         resp' = [op |-> "get_absolute_url", kind |-> "Page", pk |-> pk,
                  url |-> get_absolute_url(<<"p", "a", "g", "e">>, pages[pk])]
    /\ UNCHANGED store

Next ==
    \/ PostWrite \/ PageWrite
    \/ GetIndex \/ GetCreatedBy \/ GetCategory \/ GetTag \/ GetSearch
    \/ GetPost \/ GetPage
    \/ PostGetAbsoluteUrl \/ PageGetAbsoluteUrl
    \/ Return

Spec == Init /\ [][Next]_vars

---------------------------------------------------------------------------
(* Search over posts whose texts differ: posts are written with a title,   *)
(* an excerpt and a content, and searched by typed queries and by the      *)
(* title of a published post.                                              *)

SearchTitles == {<<"A", "b">>, <<"a", "!", "b">>, <<"e">>}
SearchExcerpts == {<<"e">>, <<"b", "_">>}
SearchContents == {<<>>, <<"1", " ", "A">>}
SearchQueries ==
    {<<"a">>, <<"A", "B">>, <<"!", "b", "_">>, <<"1", "\t", "a">>, <<"7">>}

InitSearch ==
    /\ users = {1}
    /\ tags = <<>> /\ categories = <<>> /\ pages = <<>>
    /\ posts = <<>> /\ media = <<>>
    /\ setups = <<>> /\ attachments = <<>> /\ calls = <<>>
    /\ resp = NoResp

\* a post is written in the admin
SearchPostWrite ==
    /\ resp = NoResp
    /\ Len(posts) < MaxPosts
    /\ \E title \in SearchTitles, excerpt \in SearchExcerpts,
          content \in SearchContents, pub \in BOOLEAN :
         SavePost(0,
                  [DefaultPost EXCEPT
                       !.title = title, !.excerpt = excerpt,
                       !.content = content,
                       !.slug = PostSlug(SavedPk(posts, 0)),
                       !.is_published = pub, !.created_by = 1],
                  NoImage, CHOOSE r \in SaveDraws : TRUE)

\* a typed query
SearchTyped ==
    /\ resp = NoResp
    /\ \E q \in SearchQueries : resp' = SearchView(q, 1)
    /\ UNCHANGED store

\* the full title of a published post as the query
SearchByTitle ==
    /\ resp = NoResp
    /\ \E pk \in 1..Len(posts) :
         /\ posts[pk].is_published
         /\ resp' = SearchView(posts[pk].title, 1)
    /\ UNCHANGED store

NextSearch == SearchPostWrite \/ SearchTyped \/ SearchByTitle \/ Return

SpecSearch == InitSearch /\ [][NextSearch]_vars

---------------------------------------------------------------------------
(* Images: posts, the site setup and attachments are saved with an upload, *)
(* with the file they already have, or with none.                          *)

\* the images uploaded: as wide as the target width, one pixel wider, twice
\* as wide with a height that halves to a tie, and a file that is no image
Uploads(width) ==
    {[w |-> width, h |-> 7, ok |-> TRUE],
     [w |-> width + 1, h |-> 7, ok |-> TRUE],
     [w |-> 2 * width, h |-> 3, ok |-> TRUE],
     [w |-> 2 * width, h |-> 5, ok |-> TRUE],
     [w |-> 0, h |-> 0, ok |-> FALSE]}

\* an upload not stored yet
Upload == [dir |-> "", name |-> "c", n |-> 0]

\* the saves tried on a table: a new row or a stored one, each with the
\* file it has or with an upload
ImageSaves(table, width) ==
    {[pk |-> pk, file |-> file, img |-> img] :
        pk \in (IF Len(table) < MaxPosts THEN {0} ELSE {}) \cup 1..Len(table),
        file \in {NoFile, Upload}, img \in Uploads(width)}

InitImage == EmptyStore /\ resp = NoResp

\* the files in the storage are bounded
RoomFor(file) == file = NoFile \/ Cardinality(DOMAIN media) < MaxPosts

PostSaveCover ==
    /\ resp = NoResp
    /\ \E s \in ImageSaves(posts, COVER_WIDTH) :
         /\ RoomFor(s.file)
         /\ (s.file = NoFile => s.img = NoImage)
         /\ SavePost(s.pk,
                     [LoadPost(s.pk) EXCEPT
                          !.title = <<"A">>,
                          !.slug = PostSlug(SavedPk(posts, s.pk)),
                          !.cover = IF s.file = NoFile THEN @ ELSE s.file],
                     s.img, CHOOSE r \in SaveDraws : TRUE)

SetupSaveFavicon ==
    /\ resp = NoResp
    /\ \E s \in ImageSaves(setups, FAVICON_WIDTH) :
         /\ RoomFor(s.file)
         /\ (s.file = NoFile => s.img = NoImage)
         /\ SaveSetup(s.pk,
                      [(IF s.pk = 0 THEN DefaultSetup ELSE setups[s.pk]) EXCEPT
                           !.title = <<"A">>,
                           !.favicon = IF s.file = NoFile THEN @ ELSE s.file],
                      s.img)
    /\ UNCHANGED calls

AttachmentSaveFile ==
    /\ resp = NoResp
    /\ \E s \in ImageSaves(attachments, ATTACHMENT_WIDTH) :
         /\ RoomFor(s.file)
         /\ (s.file = NoFile => s.img = NoImage)
         /\ SaveAttachment(s.pk,
                           [(IF s.pk = 0 THEN DefaultAttachment
                             ELSE attachments[s.pk]) EXCEPT
                                !.file = IF s.file = NoFile THEN @ ELSE s.file],
                           s.img)

NextImage == PostSaveCover \/ SetupSaveFavicon \/ AttachmentSaveFile \/ Return

SpecImage == InitImage /\ [][NextImage]_vars

---------------------------------------------------------------------------
(* The admin (blog/admin.py, site_setup/admin.py), one request at a time:  *)
(* a request is received with its user and the object its form built, then *)
(* handled.                                                                *)

\* the requesting user is stamped on every save
save_model_StampBoth(user, obj, change) ==
    [obj EXCEPT !.created_by = user, !.updated_by = user]

\* PostAdmin.save_model, up to obj.save(): the object handed to save
save_model(user, obj, change) ==
    IF change THEN [obj EXCEPT !.updated_by = user]
    ELSE [obj EXCEPT !.created_by = user]

\* a setup may always be added
has_add_permission_Always == TRUE

\* SiteSetupAdmin.has_add_permission: not SiteSetup.objects.exists()
has_add_permission == setups = <<>>

\* PermissionDenied
Forbidden == [op |-> "admin", status |-> "PermissionDenied"]

InitAdmin ==
    /\ users = {1, 2}
    /\ tags = <<>> /\ categories = <<>> /\ pages = <<>>
    /\ posts = <<>> /\ media = <<>>
    /\ setups = <<>> /\ attachments = <<>> /\ calls = <<>>
    /\ resp = NoResp

\* the add or change form of a post is submitted
PostAdminSubmit ==
    /\ resp = NoResp /\ calls = <<>>
    /\ \E user \in users, pub \in BOOLEAN,
          pk \in (IF Len(posts) < MaxPosts THEN {0} ELSE {}) \cup 1..Len(posts) :
         calls' = <<[op |-> "save_model", user |-> user, change |-> pk # 0,
                     pk |-> pk,
                     obj |-> [LoadPost(pk) EXCEPT
                                 !.title = <<"A">>,
                                 !.slug = PostSlug(SavedPk(posts, pk)),
                                 !.is_published = pub]]>>
    /\ UNCHANGED <<users, tags, categories, pages, posts, media, setups,
                   attachments, resp>>

\* PostAdmin.save_model(request, obj, form, change)
PostAdminSaveModel ==
    /\ resp = NoResp /\ calls # <<>> /\ calls[1].op = "save_model"
    /\ SavePost(calls[1].pk,
                save_model(calls[1].user, calls[1].obj, calls[1].change),
                NoImage, CHOOSE r \in SaveDraws : TRUE)

\* the add view of the site setup checks the permission of the request
SetupAdminRequest ==
    /\ resp = NoResp /\ calls = <<>>
    /\ \E user \in users :
         calls' = <<[op |-> "add_setup", user |-> user,
                     permitted |-> has_add_permission]>>
    /\ UNCHANGED <<users, tags, categories, pages, posts, media, setups,
                   attachments, resp>>

\* and saves the new setup, or refuses
SetupAdminAdd ==
    /\ resp = NoResp /\ calls # <<>> /\ calls[1].op = "add_setup"
    /\ IF calls[1].permitted
       THEN SaveSetup(0, [DefaultSetup EXCEPT !.title = <<"A">>], NoImage)
       ELSE /\ resp' = Forbidden
            /\ UNCHANGED <<users, tags, categories, pages, posts, media,
                           setups, attachments>>
    /\ UNCHANGED calls

\* the response is sent
AdminReturn ==
    /\ resp # NoResp
    /\ resp' = NoResp /\ calls' = <<>>
    /\ UNCHANGED <<users, tags, categories, pages, posts, media, setups,
                   attachments>>

NextAdmin ==
    \/ PostAdminSubmit \/ PostAdminSaveModel
    \/ SetupAdminRequest \/ SetupAdminAdd
    \/ AdminReturn

SpecAdmin == InitAdmin /\ [][NextAdmin]_vars

---------------------------------------------------------------------------
(* The add view of the site setup under concurrent requests: each request  *)
(* checks has_add_permission, then saves, and the steps of the requests of *)
(* two users interleave.                                                   *)

\* the requests in flight of a user
CallsOf(user) == {i \in 1..Len(calls) : calls[i].user = user}

\* a user posts the add form; the view checks the permission
RaceRequest ==
    /\ Len(setups) < MaxRows
    /\ \E user \in users, title \in SaveNames :
         /\ CallsOf(user) = {}
         /\ calls' = Append(calls, [op |-> "add_setup", user |-> user,
                                    obj |-> [DefaultSetup EXCEPT
                                                !.title = title],
                                    permitted |-> has_add_permission,
                                    done |-> FALSE])
    /\ UNCHANGED <<users, tags, categories, pages, posts, media, setups,
                   attachments, resp>>

\* the view saves the new setup of a permitted request, or refuses
RaceAdd ==
    \E i \in 1..Len(calls) :
        /\ ~calls[i].done
        /\ IF calls[i].permitted
           THEN SaveSetup(0, calls[i].obj, NoImage)
           ELSE /\ resp' = Forbidden
                /\ UNCHANGED <<users, tags, categories, pages, posts, media,
                               setups, attachments>>
        /\ calls' = [calls EXCEPT ![i].done = TRUE]

\* the response of a handled request is sent
RaceReturn ==
    \E i \in 1..Len(calls) :
        /\ calls[i].done
        /\ calls' = SelectSeq(calls, LAMBDA c : c # calls[i])
        /\ resp' = NoResp
        /\ UNCHANGED <<users, tags, categories, pages, posts, media, setups,
                       attachments>>

NextSetupRace == RaceRequest \/ RaceAdd \/ RaceReturn

SpecSetupRace == InitAdmin /\ [][NextSetupRace]_vars

---------------------------------------------------------------------------
(* Concurrent saves of tags and posts. A save reads its instance, fills a  *)
(* blank slug, and writes the row in one SQL statement, which the database *)
(* checks against the unique slug; the steps of two saves interleave. Two  *)
(* saves at most are in flight, both begun before either has written.      *)

\* the slugs an instance is saved with: blank, the one slugify_new makes of
\* the name A, and another
ConcSlugs == {<<>>} \cup TypedSlugs \cup {<<"e">>}

\* the suffix drawn by every save: bbbb
ConcDraw == CHOOSE r \in SaveDraws : r[1] = "b"

\* the saves in flight that insert a row
Inserting == {i \in 1..Len(calls) : calls[i].pk = 0}

\* the instance as the save has it in memory
ConcRow(c) ==
    IF c.kind = "Tag" THEN [name |-> c.name, slug |-> c.slug]
    ELSE [(IF c.pk = 0 THEN DefaultPost ELSE c.seen[c.pk])
             EXCEPT !.title = c.name, !.slug = c.slug]

\* save() is called on an instance that was loaded, or built, with a name
\* and a slug
ConcBegin ==
    /\ calls = <<>> \/ (Len(calls) = 1 /\ calls[1].stage # "written")
    /\ \E kind \in {"Tag", "Post"}, name \in SaveNames, slug \in ConcSlugs :
         \E pk \in 1..Len(TableOf(kind)) \cup
                    (IF Len(tags) + Len(posts) + Cardinality(Inserting)
                          < MaxPosts THEN {0} ELSE {}) :
            calls' = Append(calls,
                        [op |-> "save", kind |-> kind, pk |-> pk,
                         name |-> name, slug |-> slug,
                         seen |-> TableOf(kind), stage |-> "begun",
                         status |-> "none", row_pk |-> 0, order |-> 0])
    /\ UNCHANGED <<users, tags, categories, pages, posts, media, setups,
                   attachments, resp>>

\* if not self.slug: self.slug = slugify_new(self.name, 4)
ConcResolve ==
    /\ \E i \in 1..Len(calls) :
         /\ calls[i].stage = "begun"
         /\ calls' = [calls EXCEPT
                         ![i].slug = ResolveSlug(@, calls[i].name, ConcDraw),
                         ![i].stage = "resolved"]
    /\ UNCHANGED <<users, tags, categories, pages, posts, media, setups,
                   attachments, resp>>

\* super().save(): the INSERT or UPDATE, refused when another row has the
\* slug
ConcWrite ==
    /\ \E i \in 1..Len(calls) :
         LET c == calls[i]
             table == TableOf(c.kind)
             refused == UniqueViolation(table, c.pk, c.slug)
             written == IF refused THEN table
                        ELSE WriteRow(table, c.pk, ConcRow(c))
         IN  /\ c.stage = "resolved"
             /\ tags' = IF c.kind = "Tag" THEN written ELSE tags
             /\ posts' = IF c.kind = "Post" THEN written ELSE posts
             /\ calls' = [calls EXCEPT
                   ![i].stage = "written",
                   ![i].status = IF refused THEN "IntegrityError" ELSE "ok",
                   ![i].row_pk = IF refused THEN 0 ELSE SavedPk(table, c.pk),
                   ![i].order = 1 + Cardinality({j \in 1..Len(calls) :
                                       calls[j].stage = "written"})]
    /\ UNCHANGED <<users, categories, pages, media, setups, attachments, resp>>

\* both saves have returned
ConcSettle ==
    /\ calls # <<>>
    /\ \A i \in 1..Len(calls) : calls[i].stage = "written"
    /\ calls' = <<>>
    /\ UNCHANGED <<users, tags, categories, pages, posts, media, setups,
                   attachments, resp>>

NextConcurrent == ConcBegin \/ ConcResolve \/ ConcWrite \/ ConcSettle

SpecConcurrent == InitAdmin /\ [][NextConcurrent]_vars

---------------------------------------------------------------------------
(* Validation: full_clean of an instance whose limited fields are at and   *)
(* one past their maximum length, and save() called without it.            *)

TITLE_MAX == 65
EXCERPT_MAX == 150
NAME_MAX == 255
SLUG_MAX == 255

\* 'A' * n
Fill(n) == [i \in 1..n |-> "A"]

\* the CharField and SlugField columns of a model with their max_length
MaxLengths(kind) ==
    CASE kind = "Post" -> [title |-> TITLE_MAX, excerpt |-> EXCERPT_MAX,
                           slug |-> SLUG_MAX]
      [] kind = "Page" -> [title |-> TITLE_MAX, slug |-> SLUG_MAX]
      [] kind \in {"Tag", "Category"} -> [name |-> NAME_MAX, slug |-> SLUG_MAX]

\* the text fields declared without blank=True
Required(kind) ==
    CASE kind = "Post" -> {"title", "excerpt", "content"}
      [] kind = "Page" -> {"title", "content"}
      [] kind \in {"Tag", "Category"} -> {"name"}

\* the value is refused from max characters on
TooLong_Inclusive(value, max) == Len(value) >= max

\* MaxLengthValidator(max_length): the value is refused when longer
TooLong(value, max) == Len(value) > max

\* Model.full_clean of a new instance: the fields it refuses. A blank value
\* is an error in a required field and skips the validators of the others;
\* the slug must also be well-formed and not stored yet.
full_clean(kind, table, inst) ==
    {f \in DOMAIN inst :
        \/ f \in Required(kind) /\ inst[f] = <<>>
        \/ /\ f \in DOMAIN MaxLengths(kind) /\ inst[f] # <<>>
           /\ \/ TooLong(inst[f], MaxLengths(kind)[f])
              \/ f = "slug" /\ ~ValidSlug(inst[f])
              \/ f = "slug" /\ UniqueViolation(table, 0, inst[f])}

CleanResp(kind, table, inst) ==
    [op |-> "full_clean", kind |-> kind, inst |-> inst,
     errors |-> full_clean(kind, table, inst),
     status |-> IF full_clean(kind, table, inst) = {} THEN "ok"
                ELSE "ValidationError"]

\* the lengths tried for a limited field, and for the slug, which may be
\* left blank
Lens(max) == {max, max + 1}
SlugLens == {0} \cup Lens(SLUG_MAX)

\* every limited column of the row holds its value
ColumnsFit(kind, inst) ==
    \A f \in DOMAIN MaxLengths(kind) : ~TooLong(inst[f], MaxLengths(kind)[f])

\* the INSERT of a value longer than its column: the database either
\* enforces the column length and refuses the statement, or, as SQLite
\* does, takes the value as it is
ColumnRefused(enforced, kind, inst) == enforced /\ ~ColumnsFit(kind, inst)

RefusedResp(kind, inst) ==
    SaveResp(kind, <<>>, 0, inst.slug, inst.slug, "DataError")

InitValidate == EmptyStore /\ resp = NoResp

TagFullClean ==
    /\ resp = NoResp
    /\ \E n \in Lens(NAME_MAX), s \in SlugLens :
         resp' = CleanResp("Tag", tags, [name |-> Fill(n), slug |-> Fill(s)])
    /\ UNCHANGED store

CategoryFullClean ==
    /\ resp = NoResp
    /\ \E n \in Lens(NAME_MAX), s \in SlugLens :
         resp' = CleanResp("Category", categories,
                           [name |-> Fill(n), slug |-> Fill(s)])
    /\ UNCHANGED store

PageFullClean ==
    /\ resp = NoResp
    /\ \E t \in Lens(TITLE_MAX), s \in SlugLens :
         resp' = CleanResp("Page", pages,
                           [DefaultPage EXCEPT !.title = Fill(t),
                                               !.slug = Fill(s),
                                               !.content = <<"a">>])
    /\ UNCHANGED store

PostFullClean ==
    /\ resp = NoResp
    /\ \E t \in Lens(TITLE_MAX), e \in Lens(EXCERPT_MAX), s \in SlugLens :
         resp' = CleanResp("Post", posts,
                           [DefaultPost EXCEPT !.title = Fill(t),
                                               !.excerpt = Fill(e),
                                               !.slug = Fill(s),
                                               !.content = <<"a">>])
    /\ UNCHANGED store

\* Tag(...).save() with no full_clean before it
TagSaveDirect ==
    /\ resp = NoResp /\ RowCount < MaxRows
    /\ \E n \in Lens(NAME_MAX), enforced \in BOOLEAN :
         LET slug == <<"t">> \o PostSlug(Len(tags) + 1)
         IN  IF ColumnRefused(enforced, "Tag", [name |-> Fill(n), slug |-> slug])
             THEN /\ resp' = RefusedResp("Tag", [name |-> Fill(n), slug |-> slug])
                  /\ UNCHANGED store
             ELSE SaveTag(0, Fill(n), slug, CHOOSE r \in SaveDraws : TRUE)

\* Page(...).save() with no full_clean before it
PageSaveDirect ==
    /\ resp = NoResp /\ RowCount < MaxRows
    /\ \E t \in Lens(TITLE_MAX), enforced \in BOOLEAN :
         LET inst == [DefaultPage EXCEPT !.title = Fill(t),
                                         !.slug = PostSlug(Len(pages) + 1),
                                         !.content = <<"a">>]
         IN  IF ColumnRefused(enforced, "Page", inst)
             THEN resp' = RefusedResp("Page", inst) /\ UNCHANGED store
             ELSE SavePage(0, inst, CHOOSE r \in SaveDraws : TRUE)

\* Post(...).save() with no full_clean before it
PostSaveDirect ==
    /\ resp = NoResp /\ RowCount < MaxRows
    /\ \E t \in Lens(TITLE_MAX), e \in Lens(EXCERPT_MAX),
          enforced \in BOOLEAN :
         LET inst == [DefaultPost EXCEPT !.title = Fill(t),
                                         !.excerpt = Fill(e),
                                         !.slug = PostSlug(Len(posts) + 1),
                                         !.content = <<"a">>]
         IN  IF ColumnRefused(enforced, "Post", inst)
             THEN resp' = RefusedResp("Post", inst) /\ UNCHANGED store
             ELSE SavePost(0, inst, NoImage, CHOOSE r \in SaveDraws : TRUE)

NextValidate ==
    \/ TagFullClean \/ CategoryFullClean \/ PageFullClean \/ PostFullClean
    \/ TagSaveDirect \/ PageSaveDirect \/ PostSaveDirect
    \/ Return

SpecValidate == InitValidate /\ [][NextValidate]_vars

ListingRoutes == {"index", "created_by", "category", "tag", "search"}

Published == {pk \in 1..Len(posts) : posts[pk].is_published}

\* the published posts of an author, of a category slug, of a tag slug
ByAuthor(a) == {pk \in Published : posts[pk].created_by = a}

InCategory(slug) ==
    {pk \in Published : \E c \in 1..Len(categories) :
        posts[pk].category = c /\ categories[c].slug = slug}

WithTag(slug) ==
    {pk \in Published : \E t \in 1..Len(tags) :
        t \in posts[pk].tags /\ tags[t].slug = slug}

\* C1: whatever listing route, parameter and page number was requested,
\* every post of the result is published.
C1_ListingsOnlyPublished ==
    (resp.op = "get" /\ resp.route \in ListingRoutes) =>
        \A i \in 1..Len(resp.posts) : posts[resp.posts[i]].is_published

\* C1 witness: a listing was rendered with posts in it while an unpublished
\* post of the same author, category and tag is stored.
C1_Witness ==
    /\ resp.op = "get" /\ resp.route = "category" /\ resp.status = 200
    /\ resp.posts # <<>>
    /\ \E pk \in 1..Len(posts), qk \in Range(resp.posts) :
         /\ ~posts[pk].is_published
         /\ posts[pk].category = posts[qk].category
         /\ posts[pk].created_by = posts[qk].created_by
         /\ posts[pk].tags = posts[qk].tags

\* the answer a detail route owes for the slug it was asked
DetailAnswerRight(table) ==
    IF \E pk \in 1..Len(table) :
          table[pk].slug = resp.slug /\ table[pk].is_published
    THEN /\ resp.status = 200
         /\ resp.obj \in 1..Len(table)
         /\ table[resp.obj].slug = resp.slug
         /\ table[resp.obj].is_published
    ELSE resp.status = 404

\* C2: a detail request for slug s is not found when no record has slug s
\* or the record is unpublished, and otherwise succeeds with that record.
C2_DetailPublishedOrNotFound ==
    /\ (resp.op = "get" /\ resp.route = "post") => DetailAnswerRight(posts)
    /\ (resp.op = "get" /\ resp.route = "page") => DetailAnswerRight(pages)

\* C2 witness: the post detail route has refused the slug of a stored,
\* unpublished post.
C2_Witness ==
    /\ resp.op = "get" /\ resp.route = "post" /\ resp.status = 404
    /\ \E pk \in 1..Len(posts) :
         posts[pk].slug = resp.slug /\ ~posts[pk].is_published

\* C8: the author listing is not found for an unknown user id; for a known
\* one its first page succeeds, a page rendered lists only published posts
\* of that user, and every such post is on one of the pages.
C8_AuthorListing ==
    (resp.op = "get" /\ resp.route = "created_by") =>
        IF resp.author_pk \notin users THEN resp.status = 404
        ELSE /\ resp.page = 1 => resp.status = 200
             /\ resp.status = 200 =>
                   Range(resp.posts) \subseteq ByAuthor(resp.author_pk)
             /\ \A pk \in ByAuthor(resp.author_pk) :
                   \E n \in 1..Len(posts) :
                      LET got == CreateByView(resp.author_pk, n)
                      IN  got.status = 200 /\ pk \in Range(got.posts)

\* C8 witness: the second page of an author with more posts than fit one
\* page was rendered, while another author has a published post.
C8_Witness ==
    /\ resp.op = "get" /\ resp.route = "created_by" /\ resp.status = 200
    /\ resp.page = 2 /\ resp.posts # <<>>
    /\ \E pk \in Published : posts[pk].created_by # resp.author_pk

\* the answer a category or tag listing owes, matching being the published
\* posts of the slug
FilterAnswerRight(matching) ==
    IF matching = {} THEN resp.status = 404
    ELSE /\ resp.page = 1 => resp.status = 200
         /\ resp.status = 200 => Range(resp.posts) \subseteq matching
         /\ (resp.page = 1 /\ Cardinality(matching) <= PER_PAGE)
               => Range(resp.posts) = matching

\* C9: a category or tag listing is not found whenever no published post
\* has the category or tag of the slug, and otherwise succeeds and lists
\* the published posts that have it, a page at a time.
C9_CategoryTagListing ==
    /\ (resp.op = "get" /\ resp.route = "category")
          => FilterAnswerRight(InCategory(resp.slug))
    /\ (resp.op = "get" /\ resp.route = "tag")
          => FilterAnswerRight(WithTag(resp.slug))

\* C9 witness: the tag listing was refused for a tag that exists and is
\* attached to a post, but to no published one.
C9_Witness ==
    /\ resp.op = "get" /\ resp.route = "tag" /\ resp.status = 404
    /\ \E pk \in 1..Len(posts), t \in 1..Len(tags) :
         tags[t].slug = resp.slug /\ t \in posts[pk].tags

\* C10 as stated: the listing of an author who exists and has no published
\* post is not found.
C10_EmptyAuthorNotFound ==
    (/\ resp.op = "get" /\ resp.route = "created_by"
     /\ resp.author_pk \in users /\ ByAuthor(resp.author_pk) = {})
    => resp.status = 404

\* C10 amended: unlike category and tag, the listing of an author who
\* exists and has no published post succeeds with an empty result; the
\* first page of the author listing is not found only for an unknown user.
C10_EmptyAuthorSucceeds ==
    (resp.op = "get" /\ resp.route = "created_by" /\ resp.page = 1) =>
        /\ resp.status = 404 <=> resp.author_pk \notin users
        /\ (resp.author_pk \in users /\ ByAuthor(resp.author_pk) = {})
              => resp.status = 200 /\ resp.posts = <<>>

\* C10 witness: the listing of an author whose only post is unpublished
\* was rendered empty.
C10_Witness ==
    /\ resp.op = "get" /\ resp.route = "created_by" /\ resp.status = 200
    /\ resp.posts = <<>>
    /\ \E pk \in 1..Len(posts) :
         posts[pk].created_by = resp.author_pk /\ ~posts[pk].is_published

\* the published posts one of whose title, excerpt and content holds the
\* text, letter case ignored
Matching(text) ==
    {pk \in Published : \E f \in {posts[pk].title, posts[pk].excerpt,
                                    posts[pk].content} :
        \E i \in 1..(Len(f) + 1) :
            /\ i + Len(text) - 1 <= Len(f)
            /\ \A j \in 1..Len(text) : Lower(f[i + j - 1]) = Lower(text[j])}

\* the q parameter holds nothing but whitespace
Blank(q) == \A i \in 1..Len(q) : q[i] \in Whitespace

C12_BlankSearchRedirects ==
    (resp.op = "get" /\ resp.route = "search" /\ Blank(resp.q))
    => /\ resp.status = 302 /\ resp.location = "index"
       /\ ~resp.queried /\ resp.posts = <<>>

C12_Witness ==
    /\ resp.op = "get" /\ resp.route = "search"
    /\ resp.q # <<>> /\ Blank(resp.q)
    /\ resp.status = 302 /\ ~resp.queried

\* the published posts the listing route of the response was asked for
Listed ==
    CASE resp.route = "index" -> Published
      [] resp.route = "created_by" -> ByAuthor(resp.author_pk)
      [] resp.route = "category" -> InCategory(resp.slug)
      [] resp.route = "tag" -> WithTag(resp.slug)

\* the rank of a post among the listed ones, the greatest pk first
Rank(S, pk) == Cardinality({x \in S : x > pk}) + 1

\* C17: the index, author, category and tag listings are in strictly
\* descending pk order, and page n holds exactly the matching posts of rank
\* 9(n-1)+1 to 9n, each at the place of its rank: no post is on two pages
\* and none is skipped.
C17_PagesPartitionByRank ==
    (resp.op = "get"
        /\ resp.route \in {"index", "created_by", "category", "tag"})
    => /\ resp.status = 200 =>
            /\ \A i \in 1..(Len(resp.posts) - 1) :
                   resp.posts[i] > resp.posts[i + 1]
            /\ Range(resp.posts) =
                   {pk \in Listed :
                       /\ Rank(Listed, pk) >= 9 * (resp.page - 1) + 1
                       /\ Rank(Listed, pk) <= 9 * resp.page}
            /\ \A i \in 1..Len(resp.posts) :
                   Rank(Listed, resp.posts[i]) = 9 * (resp.page - 1) + i
       /\ \A pk \in Listed :
            (9 * (resp.page - 1) < Rank(Listed, pk)
                /\ Rank(Listed, pk) <= 9 * resp.page) => resp.status = 200

\* C17 witness: a second page was rendered with two posts, while the first
\* page holds nine.
C17_Witness ==
    /\ resp.op = "get" /\ resp.route \in {"created_by", "category", "tag"}
    /\ resp.page = 2 /\ resp.status = 200 /\ Len(resp.posts) = 2
    /\ Cardinality(Listed) = 11 /\ Cardinality(Published) = 11

\* the number of the last page of a listing of n posts; an empty listing
\* has its first page only
LastPage(n) == IF n = 0 THEN 1 ELSE (n + 8) \div 9

\* the response is a listing asked for a page past the last one
BeyondLastPage ==
    /\ resp.op = "get"
    /\ \/ /\ resp.route \in {"index", "created_by", "category", "tag"}
          /\ resp.page > LastPage(Cardinality(Listed))
       \/ /\ resp.route = "search" /\ ~Blank(resp.q)
          /\ resp.page > LastPage(Cardinality(Matching(SearchValue(resp.q))))

\* C18 as stated: a page number beyond the last page is answered with
\* success and an empty result, never with an error or a not-found.
C18_BeyondLastPageEmptySuccess ==
    BeyondLastPage => (resp.status = 200 /\ resp.posts = <<>>)

\* C18: a page number beyond the last page of a listing is answered with
\* not-found, and no post is rendered.
C18_BeyondLastPageNotFound ==
    BeyondLastPage => (resp.status = 404 /\ resp.posts = <<>>)

\* C18 witness: the index holds published posts on one page and its second
\* page was asked for.
C18_Witness ==
    /\ resp.op = "get" /\ resp.route = "index" /\ resp.page = 2
    /\ Published # {} /\ Cardinality(Published) <= 9
    /\ resp.status = 404

\* C14: the results of a search are paginated so that every matching
\* published post appears on some page of nine, however many match: the
\* page a match's rank falls on is rendered and holds the match.
C14_EveryMatchOnSomePage ==
    (resp.op = "get" /\ resp.route = "search" /\ ~Blank(resp.q))
    => LET found == Matching(SearchValue(resp.q))
       IN  \A pk \in found :
              (9 * (resp.page - 1) < Rank(found, pk)
                  /\ Rank(found, pk) <= 9 * resp.page)
              => (resp.status = 200 /\ pk \in Range(resp.posts))

\* lowercase letters and digits
LowerAlnum == AsciiLower \cup Digits \cup {"é", "ø"}

\* s is words over the alphabet, one space between two words, no space at
\* either end
SingleSpacedWords(s, alphabet) ==
    /\ \A i \in 1..Len(s) : s[i] \in alphabet \cup {" "}
    /\ \A i \in 1..(Len(s) - 1) : ~(s[i] = " " /\ s[i + 1] = " ")
    /\ s # <<>> => (s[1] # " " /\ s[Len(s)] # " ")

\* C16 as stated: the sanitized query holds only lowercase alphanumeric
\* characters separated by single spaces, with no space at either end.
C16_OnlyLowerAlnumSingleSpaces ==
    resp.op = "sanitize" => SingleSpacedWords(resp.out, LowerAlnum)

\* C16: the sanitized query holds only lowercase alphanumeric characters
\* and underscores, in words separated by single spaces, with no space at
\* either end.
C16_LowerWordCharsSingleSpaces ==
    resp.op = "sanitize" => SingleSpacedWords(resp.out, LowerAlnum \cup {"_"})

\* C16 witness: a query with punctuation and an underscore was sanitized to
\* two words.
C16_Witness ==
    /\ resp.op = "sanitize"
    /\ \E i \in 1..Len(resp.query) : resp.query[i] = "!"
    /\ \E i \in 1..Len(resp.out) : resp.out[i] = "_"
    /\ \E i \in 1..Len(resp.out) : resp.out[i] = " "

\* C13: for a non-blank query every post of the search result is
\* published and holds the sanitized query, letter case ignored, in its
\* title, its excerpt or its content.
C13_ResultsPublishedAndMatching ==
    (resp.op = "get" /\ resp.route = "search" /\ ~Blank(resp.q))
    => \A i \in 1..Len(resp.posts) :
          /\ resp.posts[i] \in 1..Len(posts)
          /\ posts[resp.posts[i]].is_published
          /\ resp.posts[i] \in Matching(SearchValue(resp.q))

\* C13 witness: a query with a tab in it found a post by its content alone,
\* in another letter case, beside a published post it left out.
C13_Witness ==
    /\ resp.op = "get" /\ resp.route = "search" /\ resp.status = 200
    /\ resp.q = <<"1", "\t", "a">>
    /\ Len(resp.posts) = 1
    /\ posts[resp.posts[1]].content = <<"1", " ", "A">>
    /\ \E pk \in Published : pk \notin Range(resp.posts)

\* C15: for every published post p, the search whose query is the full
\* title of p returns p.
C15_FullTitleFindsPost ==
    (resp.op = "get" /\ resp.route = "search" /\ resp.page = 1)
    => \A pk \in Published :
          posts[pk].title = resp.q
          => (resp.status = 200 /\ pk \in Range(resp.posts))

\* the limited fields of a model with their limits
Limits(kind) ==
    CASE kind = "Post" -> {<<"title", 65>>, <<"excerpt", 150>>, <<"slug", 255>>}
      [] kind = "Page" -> {<<"title", 65>>, <<"slug", 255>>}
      [] kind \in {"Tag", "Category"} -> {<<"name", 255>>, <<"slug", 255>>}

\* C19: full_clean of a Post, Page, Tag or Category accepts a title, name,
\* excerpt or slug of exactly its maximum length (title 65, excerpt 150,
\* name 255, slug 255) and raises a validation error that names the field
\* when the value is one character longer.
C19_MaxLengthBoundary ==
    resp.op = "full_clean" =>
        /\ \A l \in Limits(resp.kind) :
              /\ Len(resp.inst[l[1]]) = l[2] => l[1] \notin resp.errors
              /\ Len(resp.inst[l[1]]) = l[2] + 1 =>
                    (l[1] \in resp.errors /\ resp.status = "ValidationError")
        /\ (\A l \in Limits(resp.kind) : Len(resp.inst[l[1]]) <= l[2])
              => resp.status = "ok"

\* C19 witness: a post with title, excerpt and slug at their limits was
\* accepted.
C19_Witness ==
    /\ resp.op = "full_clean" /\ resp.kind = "Post" /\ resp.status = "ok"
    /\ Len(resp.inst.title) = 65 /\ Len(resp.inst.excerpt) = 150
    /\ Len(resp.inst.slug) = 255

\* C20: a save of an entity with a field over its length limit is rejected
\* before any storage write, so no stored record ever holds a value past
\* its limit and no save answers with anything but a validation error.
C20_OverLimitNeverPersisted ==
    /\ \A pk \in 1..Len(posts) :
          \A l \in Limits("Post") : Len(posts[pk][l[1]]) <= l[2]
    /\ \A pk \in 1..Len(pages) :
          \A l \in Limits("Page") : Len(pages[pk][l[1]]) <= l[2]
    /\ \A pk \in 1..Len(tags) :
          \A l \in Limits("Tag") : Len(tags[pk][l[1]]) <= l[2]
    /\ resp.op = "save" => resp.status \in {"ok", "ValidationError"}

\* the models with an image field, the table of each, the field's value in
\* a row and the width its save resizes to
ImageKinds == {"Post", "SiteSetup", "PostAttachment"}

ImageTable(kind) ==
    CASE kind = "Post" -> posts
      [] kind = "SiteSetup" -> setups
      [] kind = "PostAttachment" -> attachments

ImageOf(kind, row) ==
    CASE kind = "Post" -> row.cover
      [] kind = "SiteSetup" -> row.favicon
      [] kind = "PostAttachment" -> row.file

TargetWidth(kind) == IF kind = "SiteSetup" THEN 32 ELSE 900

\* the response is that of a save of a model with an image field
ImageSaved == resp.op = "save" /\ resp.kind \in ImageKinds

\* the row the save wrote holds the file under its stored name
RowHoldsFile ==
    /\ resp.pk \in 1..Len(ImageTable(resp.kind))
    /\ ImageOf(resp.kind, ImageTable(resp.kind)[resp.pk]) = resp.file_out

\* C21: a save of a Post, a SiteSetup or a PostAttachment invokes the image
\* processor if and only if the image is set and its stored name after the
\* write differs from the name read before it, and then the row is already
\* written; a save of an entity whose image is unchanged since its last
\* save does not invoke it again.
C21_ProcessorIffNameChanged ==
    ImageSaved =>
        /\ resp.resized <=>
              (resp.file_out # NoFile /\ resp.file_out # resp.file_in)
        /\ resp.resized => RowHoldsFile
        /\ (resp.file_in = NoFile \/ resp.file_in \in DOMAIN media)
              => ~resp.resized

\* C21 witness: a stored post whose cover was resized by an earlier save is
\* saved again with the same cover, and the processor is not invoked.
C21_Witness ==
    /\ ImageSaved /\ resp.kind = "Post" /\ ~resp.created
    /\ resp.file_in # NoFile /\ resp.file_in = resp.file_out
    /\ resp.file_in \in DOMAIN media /\ media[resp.file_in].w = 900
    /\ media[resp.file_in].h = 2
    /\ ~resp.resized /\ RowHoldsFile

\* C22: resize_image with target width W on a stored image of size (w, h)
\* leaves the file as it is when w <= W, and when w > W overwrites it in
\* place by an image W wide and round(W*h/w) high, a tie going to the even
\* height; the stored width afterwards is min(w, W).
C22_ResizeToWidth ==
    (ImageSaved /\ resp.resized /\ resp.status = "ok") =>
        LET W == TargetWidth(resp.kind)
            b == resp.before
            a == media[resp.file_out]
            d == 2 * (a.h * b.w - W * b.h)
        IN  /\ b.w <= W => a = b
            /\ b.w > W =>
                  /\ a.w = W
                  /\ d <= b.w /\ -d <= b.w
                  /\ (d = b.w \/ -d = b.w) => a.h % 2 = 0
            /\ a.w = IF b.w < W THEN b.w ELSE W

\* C22 witness: a favicon twice the target width and five pixels high was
\* resized to two pixels, the tie 2.5 going to the even height.
C22_Witness ==
    /\ ImageSaved /\ resp.kind = "SiteSetup" /\ resp.resized
    /\ resp.status = "ok"
    /\ resp.before.w = 64 /\ resp.before.h = 5
    /\ media[resp.file_out].w = 32 /\ media[resp.file_out].h = 2

\* C23: when the image processor fails during a save, the failure reaches
\* the caller of save, and the row written before it stays stored with its
\* new image reference, the file stored under it: save() opens no
\* transaction of its own and undoes nothing.
C23_FailurePropagatesRowStays ==
    ImageSaved =>
        /\ (resp.resized /\ ~resp.before.ok) => resp.status = "ProcessingError"
        /\ resp.status = "ProcessingError" =>
              /\ RowHoldsFile
              /\ resp.file_out # NoFile /\ resp.file_out # resp.file_in
              /\ resp.file_out \in DOMAIN media

\* C23 witness: a new site setup was saved with a favicon that is no image.
C23_Witness ==
    /\ ImageSaved /\ resp.kind = "SiteSetup" /\ resp.created
    /\ resp.status = "ProcessingError" /\ ~resp.before.ok
    /\ RowHoldsFile /\ resp.file_out \in DOMAIN media

\* C24: has_add_permission of the site setup admin is true exactly when no
\* SiteSetup record exists, an add request is refused when one exists, and
\* after any sequence of admin add requests handled one after the other at
\* most one record exists.
C24_SingleSetupSequential ==
    /\ Len(setups) <= 1
    /\ (calls # <<>> /\ calls[1].op = "add_setup" /\ resp = NoResp)
          => (calls[1].permitted <=> Len(setups) = 0)
    /\ (calls # <<>> /\ calls[1].op = "add_setup" /\ resp # NoResp)
          => /\ Len(setups) = 1
             /\ calls[1].permitted <=> (resp.op = "save" /\ resp.created)
             /\ ~calls[1].permitted <=> resp.status = "PermissionDenied"

\* C24 witness: an add request was refused while a setup exists.
C24_Witness ==
    /\ calls # <<>> /\ calls[1].op = "add_setup" /\ ~calls[1].permitted
    /\ resp.op = "admin" /\ resp.status = "PermissionDenied"
    /\ Len(setups) = 1

\* C25: PostAdmin.save_model on creation sets created_by to the requesting
\* user and leaves updated_by unset; on modification it sets updated_by to
\* the requesting user and leaves created_by as it was; in both cases the
\* post is stored, with the other fields of the object handed in.
C25_SaveModelStampsUser ==
    (calls # <<>> /\ calls[1].op = "save_model" /\ resp # NoResp) =>
        LET c == calls[1]
        IN  /\ resp.op = "save" /\ resp.status = "ok"
            /\ resp.pk \in 1..Len(posts)
            /\ resp.created = ~c.change
            /\ c.change => resp.pk = c.pk
            /\ IF c.change
               THEN /\ posts[resp.pk].updated_by = c.user
                    /\ posts[resp.pk].created_by = c.obj.created_by
               ELSE /\ posts[resp.pk].created_by = c.user
                    /\ posts[resp.pk].updated_by = 0
            /\ \A f \in DOMAIN c.obj \ {"created_by", "updated_by"} :
                  posts[resp.pk][f] = c.obj[f]

\* C25 witness: a post created by one user was changed by the other.
C25_Witness ==
    /\ calls # <<>> /\ calls[1].op = "save_model" /\ calls[1].change
    /\ resp.op = "save" /\ resp.status = "ok"
    /\ posts[resp.pk].created_by # 0
    /\ posts[resp.pk].created_by # calls[1].user
    /\ posts[resp.pk].updated_by = calls[1].user

\* C26: whenever the tag listing for a slug succeeds, its page title is the
\* name of the tag with that slug followed by ' - Tag - '; when no published
\* post carries the tag, or no tag has the slug, the request is not found.
C26_TagPageTitle ==
    (resp.op = "get" /\ resp.route = "tag") =>
        /\ resp.status = 200 =>
              \E t \in 1..Len(tags) :
                  /\ tags[t].slug = resp.slug
                  /\ Len(resp.page_title) = Len(tags[t].name) + 9
                  /\ SubSeq(resp.page_title, 1, Len(tags[t].name)) = tags[t].name
                  /\ SubSeq(resp.page_title, Len(tags[t].name) + 1,
                            Len(resp.page_title))
                        = <<" ", "-", " ", "T", "a", "g", " ", "-", " ">>
        /\ (WithTag(resp.slug) = {}
               \/ ~\E t \in 1..Len(tags) : tags[t].slug = resp.slug)
              => (resp.status = 404 /\ resp.page_title = <<>>)

\* C26 witness: the listing of the first tag was rendered with its title
\* while a second tag is stored that no published post carries.
C26_Witness ==
    /\ resp.op = "get" /\ resp.route = "tag" /\ resp.status = 200
    /\ resp.slug = tags[1].slug /\ resp.posts # <<>>
    /\ resp.page_title = tags[1].name \o <<" ", "-", " ", "T", "a", "g", " ", "-", " ">>
    /\ WithTag(tags[2].slug) = {}

\* the record a get_absolute_url response is about
UrlRecord == IF resp.kind = "Post" THEN posts[resp.pk] ELSE pages[resp.pk]

\* C27: get_absolute_url of a Post or a Page is the detail route of its slug
\* when the record is published and the index route otherwise; it is never
\* the detail URL of an unpublished record.
C27_AbsoluteUrlByPublication ==
    resp.op = "get_absolute_url" =>
        /\ UrlRecord.is_published =>
              resp.url = (IF resp.kind = "Post"
                          THEN <<"/", "p", "o", "s", "t", "/">>
                          ELSE <<"/", "p", "a", "g", "e", "/">>)
                         \o UrlRecord.slug \o <<"/">>
        /\ ~UrlRecord.is_published => resp.url = <<"/">>

\* C27 witness: an unpublished post with a slug was asked for its URL and
\* answered the index.
C27_Witness ==
    /\ resp.op = "get_absolute_url" /\ resp.kind = "Post"
    /\ ~UrlRecord.is_published /\ UrlRecord.slug # <<>>
    /\ resp.url = <<"/">>

\* C30: the SiteSetup singleton holds under concurrency: whatever the
\* interleaving of two admin add requests, each checking has_add_permission
\* and then creating the record, there is never more than one record.
C30_SingleSetupConcurrent == Len(setups) <= 1

\* two saves were in flight together and both have written or been refused
BothWritten ==
    Len(calls) = 2 /\ \A i \in 1..2 : calls[i].op = "save" /\ calls[i].stage = "written"

\* the two saves are of one stored entity
SameEntity == calls[1].kind = calls[2].kind /\ calls[1].pk # 0
              /\ calls[1].pk = calls[2].pk

\* the slug the entity of a save had when the save began, none for a new one
SlugBefore(c) == IF c.pk = 0 THEN <<>> ELSE c.seen[c.pk].slug

\* run alone on the table it saw, the save is accepted: no other row has
\* its slug
AloneOk(c) == \A i \in 1..Len(c.seen) : i = c.pk \/ c.seen[i].slug # c.slug

\* the name or title and the slug of the row are those of the save
HoldsValuesOf(row, c) ==
    /\ row.slug = c.slug
    /\ IF c.kind = "Tag" THEN row.name = c.name ELSE row.title = c.name

\* the save ended as it would have alone, and the row it wrote holds its
\* values
AsAlone(c) ==
    /\ c.status = (IF AloneOk(c) THEN "ok" ELSE "IntegrityError")
    /\ c.status = "ok" =>
          /\ c.row_pk \in 1..Len(TableOf(c.kind))
          /\ c.pk # 0 => c.row_pk = c.pk
          /\ HoldsValuesOf(TableOf(c.kind)[c.row_pk], c)

\* neither save's slug is the slug the other's entity has or takes
SlugsApart(c, d) ==
    /\ c.slug \notin {d.slug, SlugBefore(d)}
    /\ d.slug \notin {c.slug, SlugBefore(c)}

\* C28 as stated: concurrent saves of two different entities are fully
\* independent: each ends as it would alone and stores its own fields.
C28_DifferentEntitiesIndependent ==
    (BothWritten /\ ~SameEntity) => (AsAlone(calls[1]) /\ AsAlone(calls[2]))

\* C28: concurrent saves of two different entities are independent but for
\* the unique slug of their table: when they are of different tables, or
\* neither save's slug is the slug the other entity has or takes, each ends
\* as it would alone and the row it wrote holds its own values.
C28_IndependentUnlessSlugsMeet ==
    (BothWritten /\ ~SameEntity
        /\ (calls[1].kind # calls[2].kind \/ SlugsApart(calls[1], calls[2])))
    => (AsAlone(calls[1]) /\ AsAlone(calls[2]))

\* C28 witness: two new tags with different slugs were saved together, one
\* of them with a generated slug, and both are stored.
C28_Witness ==
    /\ BothWritten /\ calls[1].kind = "Tag" /\ calls[2].kind = "Tag"
    /\ calls[1].pk = 0 /\ calls[2].pk = 0
    /\ calls[1].slug # calls[2].slug
    /\ calls[1].status = "ok" /\ calls[2].status = "ok"
    /\ calls[1].order = 2
    /\ HoldsValuesOf(tags[calls[1].row_pk], calls[1])
    /\ HoldsValuesOf(tags[calls[2].row_pk], calls[2])

\* C29: when two saves of one stored entity run concurrently, each
\* acceptable on its own, neither is rejected and nothing is merged: once
\* both have written, the stored record equals, field for field, what the
\* save that wrote last wrote.
C29_LastWriterWins ==
    (BothWritten /\ SameEntity /\ AloneOk(calls[1]) /\ AloneOk(calls[2])) =>
        /\ calls[1].status = "ok" /\ calls[2].status = "ok"
        /\ {calls[1].order, calls[2].order} = {1, 2}
        /\ \A i \in 1..2 : calls[i].order = 2 =>
              LET c == calls[i]
                  row == TableOf(c.kind)[c.pk]
              IN  /\ HoldsValuesOf(row, c)
                  /\ \A f \in DOMAIN row \ {"name", "title", "slug"} :
                        row[f] = c.seen[c.pk][f]

\* C29 witness: two saves of one post with different titles and slugs; the
\* post holds the values of the second to write and not those of the first.
C29_Witness ==
    /\ BothWritten /\ SameEntity /\ calls[1].kind = "Post"
    /\ calls[1].status = "ok" /\ calls[2].status = "ok"
    /\ calls[1].name # calls[2].name /\ calls[1].slug # calls[2].slug
    /\ calls[1].order = 2
    /\ HoldsValuesOf(posts[calls[1].pk], calls[1])
    /\ ~HoldsValuesOf(posts[calls[2].pk], calls[2])

====
